---------------------------- MODULE Spec2Model ----------------------------
(***************************************************************************)
(* A model of netrc-rs (src/src/lib.rs): the tokenizer (Tokens), the token *)
(* classification (Token), the entry parser (Netrc::parse_borrow and       *)
(* Netrc::parse_entry) and the rendering of a Machine (Display).           *)
(*                                                                         *)
(* A text is a sequence of characters.  A character is a string: an ASCII  *)
(* character stands for itself, a non-ASCII character is written by its    *)
(* code point ("U+00E9", "U+4E2D") and carries its UTF-8 length.           *)
(***************************************************************************)
EXTENDS Naturals, Sequences, FiniteSets, TLC

VARIABLES
    input,            \* the text handed to parse (buf: T)
    unknown_entries,  \* the flag handed to parse
    buf,              \* Tokens.buf: the characters not yet consumed
    pos,              \* Tokens.pos: <<row, column>>
    netrc,            \* the Netrc accumulator
    count,            \* MachineCount
    item,             \* the token being dispatched to parse_entry
    pc,               \* "display", "loop", "entry" or "done"
    result,           \* what parse returns
    self              \* the Machine handed to Display, if any

vars == <<input, unknown_entries, buf, pos, netrc, count, item, pc, result, self>>

----------------------------------------------------------------------------
(* Option<T> *)

None == [some |-> FALSE]

Some(v) == [some |-> TRUE, val |-> v]

----------------------------------------------------------------------------
(* Characters *)

\* char::len_utf8 of the characters the model uses
Utf8Len(ch) ==
    CASE ch = "U+00E9" -> 2
      [] ch = "U+4E2D" -> 3
      [] ch = "U+3000" -> 3
      [] OTHER -> 1

\* char::is_whitespace (White_Space), on the characters the model uses
is_whitespace(ch) == ch \in {" ", "\t", "\n", "\r", "U+3000"}

\* str::len: the length in bytes
RECURSIVE ByteLen(_)
ByteLen(s) == IF s = <<>> THEN 0 ELSE Utf8Len(Head(s)) + ByteLen(Tail(s))

\* what is left of s after n calls of Chars::next (None at the end, again and again)
Drop(s, n) == IF n >= Len(s) THEN <<>> ELSE SubSeq(s, n + 1, Len(s))

----------------------------------------------------------------------------
(* Token *)

KwMachine == <<"m", "a", "c", "h", "i", "n", "e">>

KwDefault == <<"d", "e", "f", "a", "u", "l", "t">>

KwLogin == <<"l", "o", "g", "i", "n">>

KwPassword == <<"p", "a", "s", "s", "w", "o", "r", "d">>

KwAccount == <<"a", "c", "c", "o", "u", "n", "t">>

KwMacDef == <<"m", "a", "c", "d", "e", "f">>

\* Token::new with `Login` taken for the keyword login
TokenNewAnyCase(s) ==
    CASE s = KwMachine -> [kind |-> "Machine"]
      [] s = KwDefault -> [kind |-> "Default"]
      [] s = KwLogin \/ s = <<"L", "o", "g", "i", "n">> -> [kind |-> "Login"]
      [] s = KwPassword -> [kind |-> "Password"]
      [] s = KwAccount -> [kind |-> "Account"]
      [] s = KwMacDef -> [kind |-> "MacDef"]
      [] OTHER -> [kind |-> "Str", s |-> s]

\* Token::new
TokenNew(s) ==
    CASE s = KwMachine -> [kind |-> "Machine"]
      [] s = KwDefault -> [kind |-> "Default"]
      [] s = KwLogin -> [kind |-> "Login"]
      [] s = KwPassword -> [kind |-> "Password"]
      [] s = KwAccount -> [kind |-> "Account"]
      [] s = KwMacDef -> [kind |-> "MacDef"]
      [] OTHER -> [kind |-> "Str", s |-> s]

\* impl Display for Token (to_string)
TokenToString(t) ==
    CASE t.kind = "Machine" -> KwMachine
      [] t.kind = "Default" -> KwDefault
      [] t.kind = "Login" -> KwLogin
      [] t.kind = "Password" -> KwPassword
      [] t.kind = "Account" -> KwAccount
      [] t.kind = "MacDef" -> KwMacDef
      [] OTHER -> t.s

----------------------------------------------------------------------------
(* Tokens: a record [buf, pos] *)

\* Tokens::new
TokensNew(text) == [buf |-> text, pos |-> <<1, 1>>]

\* update_position with the column counted on across a newline
update_positionNoReset(p, ch) ==
    IF ch = "\n" THEN <<p[1] + 1, p[2] + 1>> ELSE <<p[1], p[2] + 1>>

\* Tokens::update_position
update_position(p, ch) ==
    IF ch = "\n" THEN <<p[1] + 1, 1>> ELSE <<p[1], p[2] + 1>>

\* Tokens::skip_whitespace
RECURSIVE skip_whitespace(_)
skip_whitespace(t) ==
    IF t.buf = <<>> \/ ~is_whitespace(Head(t.buf))
    THEN t
    ELSE skip_whitespace([buf |-> Tail(t.buf),
                          pos |-> update_position(t.pos, Head(t.buf))])

\* the inner loop of next_token, with a word ended by a space only
RECURSIVE TakeWordSpace(_, _)
TakeWordSpace(t, s) ==
    IF t.buf = <<>> \/ Head(t.buf) = " "
    THEN [s |-> s, t |-> t]
    ELSE TakeWordSpace([buf |-> Tail(t.buf),
                        pos |-> update_position(t.pos, Head(t.buf))],
                       Append(s, Head(t.buf)))

\* the inner loop of Tokens::next_token: the characters up to the next whitespace
RECURSIVE TakeWord(_, _)
TakeWord(t, s) ==
    IF t.buf = <<>> \/ is_whitespace(Head(t.buf))
    THEN [s |-> s, t |-> t]
    ELSE TakeWord([buf |-> Tail(t.buf),
                   pos |-> update_position(t.pos, Head(t.buf))],
                  Append(s, Head(t.buf)))

\* Tokens::next_token: [tok: Option<Token>, t: the Tokens afterwards]
next_token(t) ==
    LET t1 == skip_whitespace(t) IN
    IF t1.buf # <<>>
    THEN LET w == TakeWord(t1, <<>>) IN
         IF w.s = <<>>
         THEN [tok |-> None, t |-> w.t]
         ELSE [tok |-> Some(TokenNew(w.s)), t |-> w.t]
    ELSE [tok |-> None, t |-> t1]

\* the index of the first "\n" of s, 0 if there is none
RECURSIVE FirstNewline(_, _)
FirstNewline(s, i) ==
    IF i > Len(s) THEN 0
    ELSE IF s[i] = "\n" THEN i ELSE FirstNewline(s, i + 1)

\* str::lines: the lines of s, without their "\n" or "\r\n"; no last empty line
RECURSIVE Lines(_)
Lines(s) ==
    IF s = <<>> THEN <<>>
    ELSE LET i == FirstNewline(s, 1) IN
         IF i = 0 THEN <<s>>
         ELSE LET raw == SubSeq(s, 1, i - 1)
                  line == IF raw # <<>> /\ raw[Len(raw)] = "\r"
                          THEN SubSeq(raw, 1, Len(raw) - 1) ELSE raw
              IN <<line>> \o Lines(SubSeq(s, i + 1, Len(s)))

\* str::trim_start
RECURSIVE TrimStart(_)
TrimStart(s) ==
    IF s # <<>> /\ is_whitespace(Head(s)) THEN TrimStart(Tail(s)) ELSE s

\* str::trim_end
RECURSIVE TrimEnd(_)
TrimEnd(s) ==
    IF s # <<>> /\ is_whitespace(s[Len(s)])
    THEN TrimEnd(SubSeq(s, 1, Len(s) - 1)) ELSE s

\* str::trim
Trim(s) == TrimEnd(TrimStart(s))

\* how many times the loop of next_commands calls buf.next() for one line
Advance(line) == ByteLen(line) + 1

\* the loop of Tokens::next_commands over the lines ls:
\* [cmds, n: the number of calls of buf.next()]
RECURSIVE CommandLoop(_, _, _)
CommandLoop(ls, cmds, n) ==
    IF ls = <<>> THEN [cmds |-> cmds, n |-> n]
    ELSE LET line == Head(ls) IN
         IF line = <<>> \/ line = <<"\n">>
         THEN [cmds |-> cmds, n |-> n + Advance(line)]
         ELSE CommandLoop(Tail(ls), Append(cmds, Trim(line)), n + Advance(line))

\* Tokens::next_commands: [cmds, t: the Tokens afterwards]
next_commands(t) ==
    LET t1 == skip_whitespace(t)
        r == CommandLoop(Lines(t1.buf), <<>>, 0)
    IN [cmds |-> r.cmds,
        t |-> [buf |-> Drop(t1.buf, r.n),
               pos |-> <<t1.pos[1] + Len(r.cmds), 1>>]]

----------------------------------------------------------------------------
(* Machine and its rendering *)

\* Machine::default
MachineDefault == [name |-> None, login |-> None, password |-> None, account |-> None]

\* write_key! with an absent credential written as its keyword and no value
write_keyBlank(key, fmt, default) ==
    IF key.some THEN fmt \o key.val ELSE IF default = <<>> THEN fmt ELSE default

\* the macro write_key! of Display for Machine
write_key(key, fmt, default) == IF key.some THEN fmt \o key.val ELSE default

\* Display for Machine with no space before the keywords login, password, account
MachineFmtNoSpace(m) ==
    write_key(m.name, KwMachine \o <<" ">>, KwDefault)
    \o write_key(m.login, KwLogin \o <<" ">>, <<>>)
    \o write_key(m.password, KwPassword \o <<" ">>, <<>>)
    \o write_key(m.account, KwAccount \o <<" ">>, <<>>)

\* impl Display for Machine
MachineFmt(m) ==
    write_key(m.name, KwMachine \o <<" ">>, KwDefault)
    \o write_key(m.login, <<" ">> \o KwLogin \o <<" ">>, <<>>)
    \o write_key(m.password, <<" ">> \o KwPassword \o <<" ">>, <<>>)
    \o write_key(m.account, <<" ">> \o KwAccount \o <<" ">>, <<>>)

----------------------------------------------------------------------------
(* Result and Error *)

\* no result yet: parse is running
Pending == [kind |-> "Pending"]

Ok(v) == [kind |-> "Ok", val |-> v]

\* Error::EOF
ErrEOF == [kind |-> "EOF"]

\* Error::IllegalFormat(Position, String)
IllegalFormat(p, msg) == [kind |-> "IllegalFormat", pos |-> p, msg |-> msg]

\* a panic: an index out of range, or the overflow of `len() - 1`
Panic == [kind |-> "Panic"]

\* Lexer::next_token: [res: Ok(token) or Err(EOF), t: the Tokens afterwards]
LexerNextToken(t) ==
    LET r == next_token(t) IN
    [res |-> IF r.tok.some THEN Ok(r.tok.val) ELSE ErrEOF, t |-> r.t]

----------------------------------------------------------------------------
(* Netrc::parse_entry, on a record s = [tokens, netrc, count, res] *)

\* Netrc::default
NetrcDefault == [machines |-> <<>>, macdefs |-> <<>>, unknown_entries |-> <<>>]

\* MachineCount::default
MachineCountDefault == [machine |-> 0, login |-> 0, password |-> 0, account |-> 0]

\* MachineArm with the machine counter left as it was
MachineArmNoCount(s) ==
    LET r == LexerNextToken(s.tokens) IN
    IF r.res.kind # "Ok"
    THEN [s EXCEPT !.tokens = r.t, !.res = r.res]
    ELSE LET pushed == Append(s.netrc.machines, MachineDefault) IN
         IF s.count.machine >= Len(pushed)
         THEN [s EXCEPT !.tokens = r.t, !.netrc.machines = pushed, !.res = Panic]
         ELSE [s EXCEPT !.tokens = r.t,
                        !.netrc.machines =
                            [pushed EXCEPT ![s.count.machine + 1].name =
                                               Some(TokenToString(r.res.val))],
                        !.res = Ok(<<>>)]

\* Token::Machine =>
MachineArm(s) ==
    LET r == LexerNextToken(s.tokens) IN
    IF r.res.kind # "Ok"
    THEN [s EXCEPT !.tokens = r.t, !.res = r.res]
    ELSE LET pushed == Append(s.netrc.machines, MachineDefault) IN
         IF s.count.machine >= Len(pushed)
         THEN [s EXCEPT !.tokens = r.t, !.netrc.machines = pushed, !.res = Panic]
         ELSE [s EXCEPT !.tokens = r.t,
                        !.netrc.machines =
                            [pushed EXCEPT ![s.count.machine + 1].name =
                                               Some(TokenToString(r.res.val))],
                        !.count.machine = @ + 1,
                        !.res = Ok(<<>>)]

\* DefaultArm with a second default merged into the first
DefaultArmMerge(s) ==
    IF \E i \in 1..Len(s.netrc.machines) : ~s.netrc.machines[i].name.some
    THEN [s EXCEPT !.res = Ok(<<>>)]
    ELSE [s EXCEPT !.netrc.machines = Append(@, MachineDefault),
                   !.count.machine = @ + 1,
                   !.res = Ok(<<>>)]

\* Token::Default =>
DefaultArm(s) ==
    [s EXCEPT !.netrc.machines = Append(@, MachineDefault),
              !.count.machine = @ + 1,
              !.res = Ok(<<>>)]

\* LoginArm with the login written to the first Machine, not the last
LoginArmFirst(s) ==
    LET r == LexerNextToken(s.tokens) IN
    IF r.res.kind # "Ok"
    THEN [s EXCEPT !.tokens = r.t, !.res = r.res]
    ELSE LET name == TokenToString(r.res.val)
             s1 == [s EXCEPT !.tokens = r.t, !.count.login = @ + 1]
         IN IF s1.count.login > s1.count.machine
            THEN [s1 EXCEPT !.res = IllegalFormat(r.t.pos, <<"login must follow machine">>)]
            ELSE IF Len(s1.netrc.machines) = 0
                 THEN [s1 EXCEPT !.res = Panic]
                 ELSE [s1 EXCEPT !.netrc.machines[1].login = Some(name),
                                 !.res = Ok(<<>>)]

\* Token::Login =>
LoginArm(s) ==
    LET r == LexerNextToken(s.tokens) IN
    IF r.res.kind # "Ok"
    THEN [s EXCEPT !.tokens = r.t, !.res = r.res]
    ELSE LET name == TokenToString(r.res.val)
             s1 == [s EXCEPT !.tokens = r.t, !.count.login = @ + 1]
         IN IF s1.count.login > s1.count.machine
            THEN [s1 EXCEPT !.res = IllegalFormat(r.t.pos, <<"login must follow machine">>)]
            ELSE IF Len(s1.netrc.machines) = 0
                 THEN [s1 EXCEPT !.res = Panic]
                 ELSE [s1 EXCEPT !.netrc.machines[Len(s1.netrc.machines)].login = Some(name),
                                 !.res = Ok(<<>>)]

\* PasswordArm with the last Machine made anew around its password
PasswordArmReplace(s) ==
    LET r == LexerNextToken(s.tokens) IN
    IF r.res.kind # "Ok"
    THEN [s EXCEPT !.tokens = r.t, !.res = r.res]
    ELSE LET name == TokenToString(r.res.val)
             s1 == [s EXCEPT !.tokens = r.t, !.count.password = @ + 1]
         IN IF s1.count.password > s1.count.machine
            THEN [s1 EXCEPT !.res = IllegalFormat(r.t.pos, <<"password must follow machine">>)]
            ELSE IF Len(s1.netrc.machines) = 0
                 THEN [s1 EXCEPT !.res = Panic]
                 ELSE [s1 EXCEPT !.netrc.machines[Len(s1.netrc.machines)] =
                                     [MachineDefault EXCEPT !.password = Some(name)],
                                 !.res = Ok(<<>>)]

\* PasswordArm with the counter compared before it is incremented
PasswordArmCompareFirst(s) ==
    LET r == LexerNextToken(s.tokens) IN
    IF r.res.kind # "Ok"
    THEN [s EXCEPT !.tokens = r.t, !.res = r.res]
    ELSE LET name == TokenToString(r.res.val)
             s1 == [s EXCEPT !.tokens = r.t, !.count.password = @ + 1]
         IN IF s.count.password > s.count.machine
            THEN [s1 EXCEPT !.res = IllegalFormat(r.t.pos, <<"password must follow machine">>)]
            ELSE IF Len(s1.netrc.machines) = 0
                 THEN [s1 EXCEPT !.res = Panic]
                 ELSE [s1 EXCEPT !.netrc.machines[Len(s1.netrc.machines)].password = Some(name),
                                 !.res = Ok(<<>>)]

\* Token::Password =>
PasswordArm(s) ==
    LET r == LexerNextToken(s.tokens) IN
    IF r.res.kind # "Ok"
    THEN [s EXCEPT !.tokens = r.t, !.res = r.res]
    ELSE LET name == TokenToString(r.res.val)
             s1 == [s EXCEPT !.tokens = r.t, !.count.password = @ + 1]
         IN IF s1.count.password > s1.count.machine
            THEN [s1 EXCEPT !.res = IllegalFormat(r.t.pos, <<"password must follow machine">>)]
            ELSE IF Len(s1.netrc.machines) = 0
                 THEN [s1 EXCEPT !.res = Panic]
                 ELSE [s1 EXCEPT !.netrc.machines[Len(s1.netrc.machines)].password = Some(name),
                                 !.res = Ok(<<>>)]

\* AccountArm with an account refused as soon as its counter reaches the machine counter
AccountArmAtLeast(s) ==
    LET r == LexerNextToken(s.tokens) IN
    IF r.res.kind # "Ok"
    THEN [s EXCEPT !.tokens = r.t, !.res = r.res]
    ELSE LET name == TokenToString(r.res.val)
             s1 == [s EXCEPT !.tokens = r.t, !.count.account = @ + 1]
         IN IF s1.count.account >= s1.count.machine
            THEN [s1 EXCEPT !.res = IllegalFormat(r.t.pos, <<"account must follow machine">>)]
            ELSE IF Len(s1.netrc.machines) = 0
                 THEN [s1 EXCEPT !.res = Panic]
                 ELSE [s1 EXCEPT !.netrc.machines[Len(s1.netrc.machines)].account = Some(name),
                                 !.res = Ok(<<>>)]

\* Token::Account =>
AccountArm(s) ==
    LET r == LexerNextToken(s.tokens) IN
    IF r.res.kind # "Ok"
    THEN [s EXCEPT !.tokens = r.t, !.res = r.res]
    ELSE LET name == TokenToString(r.res.val)
             s1 == [s EXCEPT !.tokens = r.t, !.count.account = @ + 1]
         IN IF s1.count.account > s1.count.machine
            THEN [s1 EXCEPT !.res = IllegalFormat(r.t.pos, <<"account must follow machine">>)]
            ELSE IF Len(s1.netrc.machines) = 0
                 THEN [s1 EXCEPT !.res = Panic]
                 ELSE [s1 EXCEPT !.netrc.machines[Len(s1.netrc.machines)].account = Some(name),
                                 !.res = Ok(<<>>)]

\* MacDefArm with a missing name taken as the empty name
MacDefArmNoName(s) ==
    LET r == LexerNextToken(s.tokens)
        name == IF r.res.kind = "Ok" THEN TokenToString(r.res.val) ELSE <<>>
        c == next_commands(r.t)
    IN [s EXCEPT !.tokens = c.t,
                 !.netrc.macdefs = Append(@, <<name, c.cmds>>),
                 !.res = Ok(<<>>)]

\* Token::MacDef =>
MacDefArm(s) ==
    LET r == LexerNextToken(s.tokens) IN
    IF r.res.kind # "Ok"
    THEN [s EXCEPT !.tokens = r.t, !.res = r.res]
    ELSE LET name == TokenToString(r.res.val)
             c == next_commands(r.t)
         IN [s EXCEPT !.tokens = c.t,
                      !.netrc.macdefs = Append(@, <<name, c.cmds>>),
                      !.res = Ok(<<>>)]

\* StrCollectArm with a word already collected not collected again
StrCollectArmOnce(s, str) ==
    IF \E i \in 1..Len(s.netrc.unknown_entries) : s.netrc.unknown_entries[i] = str
    THEN [s EXCEPT !.res = Ok(<<>>)]
    ELSE [s EXCEPT !.netrc.unknown_entries = Append(@, str), !.res = Ok(<<>>)]

\* Token::Str(s) if unknown_entries =>
StrCollectArm(s, str) ==
    [s EXCEPT !.netrc.unknown_entries = Append(@, str), !.res = Ok(<<>>)]

\* StrErrorArm with the unknown word passed over in silence
StrErrorArmSkip(s, str) == [s EXCEPT !.res = Ok(<<>>)]

\* Token::Str(s) =>
StrErrorArm(s, str) ==
    [s EXCEPT !.res = IllegalFormat(s.tokens.pos, <<"token: ", str>>)]

\* Netrc::parse_entry
parse_entry(s, tok, flag) ==
    CASE tok.kind = "Machine" -> MachineArm(s)
      [] tok.kind = "Default" -> DefaultArm(s)
      [] tok.kind = "Login" -> LoginArm(s)
      [] tok.kind = "Password" -> PasswordArm(s)
      [] tok.kind = "Account" -> AccountArm(s)
      [] tok.kind = "MacDef" -> MacDefArm(s)
      [] tok.kind = "Str" /\ flag -> StrCollectArm(s, tok.s)
      [] OTHER -> StrErrorArm(s, tok.s)

\* the loop of Netrc::parse_borrow, run to its end: what parse returns
RECURSIVE ParseLoop(_, _)
ParseLoop(s, flag) ==
    LET r == LexerNextToken(s.tokens) IN
    IF r.res.kind # "Ok"
    THEN Ok(s.netrc)
    ELSE LET s1 == parse_entry([s EXCEPT !.tokens = r.t], r.res.val, flag) IN
         IF s1.res.kind # "Ok" THEN s1.res ELSE ParseLoop(s1, flag)

\* Netrc::parse / Netrc::parse_borrow
parse_borrow(text, flag) ==
    ParseLoop([tokens |-> TokensNew(text), netrc |-> NetrcDefault,
               count |-> MachineCountDefault, res |-> Ok(<<>>)], flag)

----------------------------------------------------------------------------
(* The inputs *)

\* the longest sequence of pieces of a free input
MaxPieces == 3

\* the most `machine .. login .. password .. account ..` tuples of a tuple input
MaxTuples == 2

\* the most lines of a macro body
MaxLines == 2

\* the sequences over S of length 0..n
SeqUpTo(S, n) == UNION {[1..k -> S] : k \in 0..n}

\* the concatenation of the texts of ts
RECURSIVE Concat(_)
Concat(ts) == IF ts = <<>> THEN <<>> ELSE Head(ts) \o Concat(Tail(ts))

\* the texts of ts, with sep between one and the next
RECURSIVE Join(_, _)
Join(ts, sep) ==
    IF ts = <<>> THEN <<>>
    ELSE IF Len(ts) = 1 THEN Head(ts)
    ELSE Head(ts) \o sep \o Join(Tail(ts), sep)

\* how the words of an input are laid out: what leads, separates and trails them
Layouts ==
    {[lead |-> <<>>, sep |-> <<" ">>, trail |-> <<>>],
     [lead |-> <<"\n">>, sep |-> <<"\t", "\n">>, trail |-> <<" ">>]}

Layout(ws, l) == l.lead \o Join(ws, l.sep) \o l.trail

WordH == <<"h">>

WordX == <<"x">>

WordZh == <<"U+4E2D">>

\* the pieces of a free input: entries, keywords without a value, opaque words
Pieces ==
    {<<KwMachine, WordH>>, <<KwDefault>>, <<KwLogin, WordX>>,
     <<KwPassword, WordX>>, <<KwAccount, WordH>>,
     <<KwMachine>>, <<KwLogin>>, <<KwPassword>>, <<KwAccount>>, <<KwMacDef>>,
     <<WordX>>, <<WordZh>>}

FreeInputs ==
    {Layout(Concat(ps), l) : ps \in SeqUpTo(Pieces, MaxPieces), l \in Layouts}

\* the values <h, l, p, a> of a tuple
TupleValues ==
    {<<WordH, WordX, WordX, WordH>>,
     <<KwLogin, KwMachine, KwDefault, KwMacDef>>,
     <<WordZh, WordH, KwPassword, WordX>>}

Tuple(v) == <<KwMachine, v[1], KwLogin, v[2], KwPassword, v[3], KwAccount, v[4]>>

TupleInputs ==
    {Layout(Concat([i \in 1..Len(vs) |-> Tuple(vs[i])]), l) :
        vs \in SeqUpTo(TupleValues, MaxTuples), l \in Layouts}

\* the lines of a macro body, as written
BodyLines ==
    {<<"c">>, <<" ", "c", " ", "d", "\t">>, <<"U+00E9">>, <<"c", "U+4E2D">>, <<" ">>}

\* what follows the last line of a macro body
BodyTails ==
    {<<>>, <<"\n">>,
     <<"\n", "\n">> \o KwMachine \o <<" ", "h">>,
     <<"\n", "\n", " ">> \o KwMachine \o <<" ", "h", " ">> \o KwLogin \o <<" ", "x">>,
     <<"\n", "\n", "x", " ">> \o KwDefault,
     <<"\n", " ", "\n">> \o KwDefault}

MacdefInputs ==
    {pre \o KwMacDef \o <<" ", "m">> \o gap \o Join(ls, <<"\n">>) \o tail :
        pre \in {<<>>, KwDefault \o <<"\n">>},
        gap \in {<<"\n">>, <<" ">>},
        ls \in SeqUpTo(BodyLines, MaxLines) \ {<<>>},
        tail \in BodyTails}

\* the longest sequence of entries of an entry input
MaxEntries == 4

\* the word `Login`, which is no keyword
WordCapLogin == <<"L", "o", "g", "i", "n">>

\* the entries of an entry input: machines, credentials, and two opaque words
\* with an ideographic space between them
EntryPieces ==
    {<<KwMachine, WordH>>, <<KwDefault>>, <<KwLogin, WordX>>, <<KwLogin, WordH>>,
     <<KwPassword, WordX>>, <<WordCapLogin \o <<"U+3000">> \o WordX>>}

EntryInputs ==
    {Join(Concat(ps), <<" ">>) : ps \in SeqUpTo(EntryPieces, MaxEntries)}

ParseInputs == FreeInputs \cup TupleInputs \cup MacdefInputs \cup EntryInputs

\* the longest of the texts made of every character
MaxChars == 5

\* a character of a word, and the whitespace characters of the model
LexChars == {"x", " ", "\t", "\n", "U+3000"}

\* every text of up to MaxChars characters
CharInputs == SeqUpTo(LexChars, MaxChars)

\* the texts of the runs whose return is awaited: the free inputs of one piece
\* less, and the other inputs
FairInputs ==
    {Layout(Concat(ps), l) : ps \in SeqUpTo(Pieces, MaxPieces - 1), l \in Layouts}
    \cup TupleInputs \cup MacdefInputs \cup EntryInputs

\* the texts handed to the tokenizer alone
LexInputs == CharInputs \cup EntryInputs

\* the values of a field of a Machine handed to Display
FieldValues == {WordH, KwLogin, <<>>, <<"a", " ", "b">>, <<"a", "\n">>}

Fields == {None} \cup {Some(v) : v \in FieldValues}

Machines == [name : Fields, login : Fields, password : Fields, account : Fields]

----------------------------------------------------------------------------
(* The state machine: `m.to_string()`, and `Netrc::parse(text, flag)` step by step *)

\* Lexer::new, Netrc::default, MachineCount::default (lines 116-118)
ParseStart(text) ==
    /\ input = text
    /\ buf = TokensNew(text).buf
    /\ pos = TokensNew(text).pos
    /\ netrc = NetrcDefault
    /\ count = MachineCountDefault
    /\ item = None
    /\ result = Pending

InitParse ==
    /\ \E text \in ParseInputs : ParseStart(text)
    /\ unknown_entries \in BOOLEAN
    /\ pc = "loop"
    /\ self = None

InitDisplay ==
    /\ ParseStart(<<>>)
    /\ unknown_entries \in BOOLEAN
    /\ pc = "display"
    /\ self \in {Some(m) : m \in Machines}

Init == InitParse \/ InitDisplay

\* the state, as the record parse_entry works on
Cur == [tokens |-> [buf |-> buf, pos |-> pos], netrc |-> netrc, count |-> count,
        res |-> Ok(<<>>)]

\* `m.to_string()` and then `Netrc::parse(text, flag)` of the text it gives
Display ==
    /\ pc = "display"
    /\ LET text == MachineFmt(self.val) IN
       /\ input' = text
       /\ buf' = TokensNew(text).buf
       /\ pos' = TokensNew(text).pos
    /\ pc' = "loop"
    /\ UNCHANGED <<unknown_entries, netrc, count, item, result, self>>

\* the end of the input handed on as an error
BreakEOF(n) == ErrEOF

\* what parse returns once the loop is left: Ok(netrc)
Break(n) == Ok(n)

\* Err(Error::EOF) => break, and Ok(netrc)
LoopBreak ==
    /\ pc = "loop"
    /\ LET r == LexerNextToken([buf |-> buf, pos |-> pos]) IN
       /\ r.res.kind = "EOF"
       /\ buf' = r.t.buf
       /\ pos' = r.t.pos
    /\ result' = Break(netrc)
    /\ pc' = "done"
    /\ UNCHANGED <<input, unknown_entries, netrc, count, item, self>>

\* LoopDispatch with the token looked at and left in the input
LoopDispatchPeek ==
    /\ pc = "loop"
    /\ LET r == LexerNextToken([buf |-> buf, pos |-> pos]) IN
       /\ r.res.kind = "Ok"
       /\ item' = Some(r.res.val)
    /\ pc' = "entry"
    /\ UNCHANGED <<input, unknown_entries, buf, pos, netrc, count, result, self>>

\* Ok(tok) => the call of parse_entry
LoopDispatch ==
    /\ pc = "loop"
    /\ LET r == LexerNextToken([buf |-> buf, pos |-> pos]) IN
       /\ r.res.kind = "Ok"
       /\ buf' = r.t.buf
       /\ pos' = r.t.pos
       /\ item' = Some(r.res.val)
    /\ pc' = "entry"
    /\ UNCHANGED <<input, unknown_entries, netrc, count, result, self>>

\* an error of parse_entry ignored
QuestionIgnore(res) == FALSE

\* the `?` of line 124: an error of parse_entry is what parse returns
Question(res) == res.kind # "Ok"

\* the state after an arm of parse_entry has run and left s
Return(s) ==
    /\ buf' = s.tokens.buf
    /\ pos' = s.tokens.pos
    /\ netrc' = s.netrc
    /\ count' = s.count
    /\ IF Question(s.res)
       THEN result' = s.res /\ pc' = "done"
       ELSE result' = result /\ pc' = "loop"
    /\ UNCHANGED <<input, unknown_entries, item, self>>

ParseMachine == pc = "entry" /\ item.val.kind = "Machine" /\ Return(MachineArm(Cur))

ParseDefault == pc = "entry" /\ item.val.kind = "Default" /\ Return(DefaultArm(Cur))

ParseLogin == pc = "entry" /\ item.val.kind = "Login" /\ Return(LoginArm(Cur))

ParsePassword == pc = "entry" /\ item.val.kind = "Password" /\ Return(PasswordArm(Cur))

ParseAccount == pc = "entry" /\ item.val.kind = "Account" /\ Return(AccountArm(Cur))

ParseMacDef == pc = "entry" /\ item.val.kind = "MacDef" /\ Return(MacDefArm(Cur))

ParseStrCollect ==
    /\ pc = "entry" /\ item.val.kind = "Str" /\ unknown_entries
    /\ Return(StrCollectArm(Cur, item.val.s))

ParseStrError ==
    /\ pc = "entry" /\ item.val.kind = "Str" /\ ~unknown_entries
    /\ Return(StrErrorArm(Cur, item.val.s))

Next ==
    \/ Display
    \/ LoopBreak
    \/ LoopDispatch
    \/ ParseMachine
    \/ ParseDefault
    \/ ParseLogin
    \/ ParsePassword
    \/ ParseAccount
    \/ ParseMacDef
    \/ ParseStrCollect
    \/ ParseStrError

Spec == Init /\ [][Next]_vars

\* before the call of parse: nothing read, nothing built
FairInit ==
    /\ ParseStart(<<>>)
    /\ unknown_entries = FALSE
    /\ pc = "start"
    /\ self = None

\* the call Netrc::parse(text, flag)
CallParse ==
    /\ pc = "start"
    /\ \E text \in FairInputs :
          /\ input' = text
          /\ buf' = TokensNew(text).buf
          /\ pos' = TokensNew(text).pos
    /\ unknown_entries' \in BOOLEAN
    /\ pc' = "loop"
    /\ UNCHANGED <<netrc, count, item, result, self>>

\* the call m.to_string() on a Machine, its text then to be parsed
CallDisplay ==
    /\ pc = "start"
    /\ self' \in {Some(m) : m \in Machines}
    /\ unknown_entries' \in BOOLEAN
    /\ pc' = "display"
    /\ UNCHANGED <<input, buf, pos, netrc, count, item, result>>

FairNext == CallParse \/ CallDisplay \/ Next

\* parse has been called and has not returned
Running == pc \in {"display", "loop", "entry"}

\* control moves on from the step it is at; every step of Next does so
Proceed == Running /\ pc' \in {"loop", "entry", "done"} \ {pc}

\* parse runs on: once called, the sequential code takes its next step until
\* it returns
FairSpec == FairInit /\ [][FairNext]_vars /\ WF_pc(Proceed)

----------------------------------------------------------------------------
(* The tokenizer alone, driven as test_token drives it *)

\* Tokens::new(&input) of test_token
LexInit ==
    /\ \E text \in LexInputs : ParseStart(text)
    /\ unknown_entries = FALSE
    /\ pc = "lexer"
    /\ self = None

\* one call of tokens.next_token() of the loop of test_token
LexNextToken ==
    /\ pc = "lexer"
    /\ LET r == next_token([buf |-> buf, pos |-> pos]) IN
       /\ buf' = r.t.buf
       /\ pos' = r.t.pos
       /\ item' = r.tok
       /\ pc' = IF r.tok.some THEN "lexer" ELSE "done"
    /\ UNCHANGED <<input, unknown_entries, netrc, count, result, self>>

LexNext == LexNextToken

LexSpec == LexInit /\ [][LexNext]_vars

----------------------------------------------------------------------------
(* What the claims speak of *)

\* some character of b is not whitespace: a word is still to be read
HasWord(b) == \E i \in 1..Len(b) : ~is_whitespace(b[i])

\* the maximal runs of non-whitespace characters of s, in order
RECURSIVE SplitWords(_, _, _)
SplitWords(s, cur, acc) ==
    IF s = <<>> THEN (IF cur = <<>> THEN acc ELSE Append(acc, cur))
    ELSE IF is_whitespace(Head(s))
         THEN SplitWords(Tail(s), <<>>, IF cur = <<>> THEN acc ELSE Append(acc, cur))
         ELSE SplitWords(Tail(s), Append(cur, Head(s)), acc)

WordsOf(s) == SplitWords(s, <<>>, <<>>)

\* parse is over, and returned Ok
Succeeded == pc = "done" /\ result.kind = "Ok"

\* the keywords whose arm reads a value word
Credentials == {"Login", "Password", "Account"}

ValueKeywords == {"Machine", "Login", "Password", "Account", "MacDef"}

----------------------------------------------------------------------------
(* C1 *)

\* ws is `machine <h> login <l> password <p> account <a>`, any number of times
IsTuples(ws) ==
    /\ Len(ws) % 8 = 0
    /\ \A i \in 1..Len(ws) :
          /\ i % 8 = 1 => ws[i] = KwMachine
          /\ i % 8 = 3 => ws[i] = KwLogin
          /\ i % 8 = 5 => ws[i] = KwPassword
          /\ i % 8 = 7 => ws[i] = KwAccount

\* the Machines of the tuples ws
TupleMachines(ws) ==
    [k \in 1..(Len(ws) \div 8) |->
        [name |-> Some(ws[8 * k - 6]), login |-> Some(ws[8 * k - 4]),
         password |-> Some(ws[8 * k - 2]), account |-> Some(ws[8 * k])]]

\* C1: for an input made only of whitespace-separated
\* `machine <h> login <l> password <p> account <a>` tuples, parse with either
\* flag returns Ok with one Machine per tuple, in file order, holding that
\* tuple's values, and with no macdefs and no unknown entries.
C1_Tuples ==
    (pc = "done" /\ IsTuples(WordsOf(input))) =>
        result = Ok([machines |-> TupleMachines(WordsOf(input)),
                     macdefs |-> <<>>, unknown_entries |-> <<>>])

\* two tuples, the first with keywords as its values, have been parsed
C1_Witness ==
    /\ Succeeded
    /\ self = None
    /\ IsTuples(WordsOf(input))
    /\ Len(result.val.machines) = 2
    /\ result.val.machines[1].name = Some(KwLogin)
    /\ result.val.machines[2].name = Some(WordH)

----------------------------------------------------------------------------
(* C2 *)

\* C2 as stated: whenever login, password or account is dispatched and no
\* machine or default was dispatched before it, parse returns IllegalFormat.
C2_Original ==
    [][(pc = "entry" /\ item.val.kind \in Credentials /\ count.machine = 0)
          => (pc' = "done" /\ result'.kind = "IllegalFormat")]_vars

\* C2, amended: whenever login, password or account is dispatched and no
\* machine or default was dispatched before it, parse returns at once:
\* IllegalFormat if a value word follows the keyword, EndOfInput if the input
\* ends after the keyword; it never panics on an out-of-range access.
C2_NoMachine ==
    [][(pc = "entry" /\ item.val.kind \in Credentials /\ count.machine = 0)
          => /\ pc' = "done"
             /\ result'.kind = IF HasWord(buf) THEN "IllegalFormat" ELSE "EOF"
             /\ netrc' = netrc]_vars

\* `password <v>` was dispatched first, and parse returned IllegalFormat
C2_Witness ==
    /\ pc = "done"
    /\ result.kind = "IllegalFormat"
    /\ count.machine = 0
    /\ netrc.machines = <<>>
    /\ item.val.kind = "Password"
    /\ count.password = 1

----------------------------------------------------------------------------
(* C3 *)

\* C3: when machine, login, password, account or macdef is dispatched and no
\* word is left in the input, parse returns Error::EOF.
C3_EndOfInput ==
    [][(pc = "entry" /\ item.val.kind \in ValueKeywords /\ ~HasWord(buf))
          => (pc' = "done" /\ result' = ErrEOF)]_vars

\* `login` was the last word, after a machine entry, and parse returned EOF
C3_Witness ==
    /\ pc = "done"
    /\ result = ErrEOF
    /\ item.val.kind = "Login"
    /\ count.machine = 1
    /\ netrc.machines[1].name = Some(WordH)

----------------------------------------------------------------------------
(* C4 *)

\* the start of parse on text, as the record parse_entry works on
StartOf(text) ==
    [tokens |-> TokensNew(text), netrc |-> NetrcDefault,
     count |-> MachineCountDefault, res |-> Ok(<<>>)]

\* the first n characters of b
Prefix(b, n) == SubSeq(b, 1, n)

\* a walk along the entries of a text, from s on: `words`, the opaque words
\* dispatched at top level, in order, and `kept`, the text without them
RECURSIVE Walk(_, _)
Walk(s, acc) ==
    LET b == s.tokens.buf
        r == LexerNextToken(s.tokens)
    IN
    IF r.res.kind # "Ok"
    THEN [acc EXCEPT !.kept = @ \o b]
    ELSE IF r.res.val.kind = "Str"
    THEN Walk([s EXCEPT !.tokens = r.t],
              [words |-> Append(acc.words, r.res.val.s),
               kept |-> acc.kept
                        \o Prefix(b, Len(b) - Len(r.t.buf) - Len(r.res.val.s))])
    ELSE LET s1 == parse_entry([s EXCEPT !.tokens = r.t], r.res.val, TRUE) IN
         IF s1.res.kind # "Ok"
         THEN [acc EXCEPT !.kept = @ \o b]
         ELSE Walk(s1, [acc EXCEPT
                           !.kept = @ \o Prefix(b, Len(b) - Len(s1.tokens.buf))])

TopLevel(text) == Walk(StartOf(text), [words |-> <<>>, kept |-> <<>>])

\* C4: without tolerance, the dispatch of an opaque word ends parse with
\* IllegalFormat, at the first such word.  With tolerance, parse succeeds
\* exactly when the text without its top-level opaque words parses, and then
\* unknown_entries holds those words in the order met, while machines and
\* macdefs are those of the text without them.
C4_Unknown ==
    /\ (~unknown_entries /\ item.some /\ pc # "entry" /\ item.val.kind = "Str")
          => /\ pc = "done"
             /\ result.kind = "IllegalFormat"
             /\ result.msg = <<"token: ", item.val.s>>
             /\ item.val.s = TopLevel(input).words[1]
    /\ (unknown_entries /\ pc = "done")
          => LET w == TopLevel(input)
                 r == parse_borrow(w.kept, FALSE)
             IN /\ result.kind = "Ok" <=> r.kind = "Ok"
                /\ result.kind = "Ok"
                      => /\ result.val.unknown_entries = w.words
                         /\ result.val.machines = r.val.machines
                         /\ result.val.macdefs = r.val.macdefs

\* with tolerance, two different opaque words around an entry were collected
C4_Witness ==
    /\ Succeeded
    /\ unknown_entries
    /\ result.val.unknown_entries = <<WordZh, WordX>>
    /\ Len(result.val.machines) = 1
    /\ result.val.machines[1].name = Some(WordH)

\* without tolerance, an opaque word after an entry ended parse
C4_WitnessStrict ==
    /\ pc = "done"
    /\ ~unknown_entries
    /\ item.some
    /\ item.val.kind = "Str"
    /\ result.kind = "IllegalFormat"
    /\ Len(netrc.machines) = 1

----------------------------------------------------------------------------
(* C5 *)

FieldNames == {"name", "login", "password", "account"}

\* the values of the fields of m that are present
PresentValues(m) == {m[f].val : f \in {g \in FieldNames : m[g].some}}

NoWhitespace(v) == \A i \in 1..Len(v) : ~is_whitespace(v[i])

\* the Netrc that holds m and nothing else
Only(m) == [machines |-> <<m>>, macdefs |-> <<>>, unknown_entries |-> <<>>]

\* C5 as stated: a Machine whose present values hold no whitespace, rendered
\* and then parsed without tolerance, gives Ok with that Machine alone.
C5_Original ==
    (pc = "done" /\ self.some /\ ~unknown_entries
        /\ \A v \in PresentValues(self.val) : NoWhitespace(v))
    => result = Ok(Only(self.val))

\* C5, amended: a Machine whose present values are not empty and hold no
\* whitespace, rendered and then parsed without tolerance, gives Ok with
\* that Machine alone, no macdefs and no unknown entries.
C5_RoundTrip ==
    (pc = "done" /\ self.some /\ ~unknown_entries
        /\ \A v \in PresentValues(self.val) : v # <<>> /\ NoWhitespace(v))
    => result = Ok(Only(self.val))

\* a Machine with its four fields present, one spelling a keyword, came back
C5_Witness ==
    /\ Succeeded
    /\ self.some
    /\ ~unknown_entries
    /\ self.val.name = Some(WordH)
    /\ self.val.login = Some(KwLogin)
    /\ self.val.password.some /\ self.val.password.val = WordH
    /\ self.val.account.some /\ self.val.account.val = KwLogin
    /\ result.val.machines = <<self.val>>

----------------------------------------------------------------------------
(* C6 *)

RECURSIVE SkipWs(_)
SkipWs(b) == IF b # <<>> /\ is_whitespace(Head(b)) THEN SkipWs(Tail(b)) ELSE b

RECURSIVE SkipWord(_)
SkipWord(b) == IF b # <<>> /\ ~is_whitespace(Head(b)) THEN SkipWord(Tail(b)) ELSE b

\* the text from the first line of the macro body on, b being the text
\* that follows the keyword macdef
BodyOf(b) == SkipWs(SkipWord(SkipWs(b)))

NameOf(b) == LET a == SkipWs(b) IN Prefix(a, Len(a) - Len(SkipWord(a)))

\* where the first empty line of s is: the index of the "\n" before it, or 0
BlankAt(s) ==
    LET I == {i \in 1..(Len(s) - 1) : s[i] = "\n" /\ s[i + 1] = "\n"} IN
    IF I = {} THEN 0 ELSE CHOOSE i \in I : \A j \in I : i <= j

\* s cut at its "\n"s
RECURSIVE SplitLines(_, _, _)
SplitLines(s, cur, acc) ==
    IF s = <<>> THEN Append(acc, cur)
    ELSE IF Head(s) = "\n" THEN SplitLines(Tail(s), <<>>, Append(acc, cur))
    ELSE SplitLines(Tail(s), Append(cur, Head(s)), acc)

\* the text lines of the macro body of b, up to its first empty line
TextLines(b) == SplitLines(Prefix(BodyOf(b), BlankAt(BodyOf(b)) - 1), <<>>, <<>>)

\* the text after the empty line that ends the macro body of b
AfterBody(b) == Drop(BodyOf(b), BlankAt(BodyOf(b)) + 1)

\* b is: a macro name, one or more text lines, an empty line, further entries
MacroForm(b) ==
    /\ BlankAt(BodyOf(b)) > 0
    /\ \A i \in 1..Len(TextLines(b)) : HasWord(TextLines(b)[i])
    /\ HasWord(AfterBody(b))

\* C6: `macdef <name>`, one or more text lines, an empty line and further
\* entries: the macro holds exactly those lines, each trimmed, in order, and
\* the cursor then stands at the first character after the empty line,
\* whatever the characters of the lines and the indentation of what follows.
C6_Macro ==
    [][(pc = "entry" /\ item.val.kind = "MacDef" /\ MacroForm(buf))
          => /\ pc' = "loop"
             /\ netrc'.macdefs =
                   Append(netrc.macdefs,
                          <<NameOf(buf),
                            [i \in 1..Len(TextLines(buf)) |-> Trim(TextLines(buf)[i])]>>)
             /\ buf' = AfterBody(buf)]_vars

\* C6, for macro bodies of one-byte characters only
C6_MacroAscii ==
    [][(pc = "entry" /\ item.val.kind = "MacDef" /\ MacroForm(buf)
           /\ \A i \in 1..Len(TextLines(buf)) :
                 ByteLen(TextLines(buf)[i]) = Len(TextLines(buf)[i]))
          => /\ pc' = "loop"
             /\ netrc'.macdefs =
                   Append(netrc.macdefs,
                          <<NameOf(buf),
                            [i \in 1..Len(TextLines(buf)) |-> Trim(TextLines(buf)[i])]>>)
             /\ buf' = AfterBody(buf)]_vars

----------------------------------------------------------------------------
(* C7 *)

\* what the entry being dispatched returns
EntryResult == parse_entry(Cur, item.val, unknown_entries).res

\* C7: once the dispatch of an entry returns an error, parse returns that
\* error and takes no further step: no token is requested or dispatched any
\* more, the result is set once, and an error carries no Netrc.
C7_FailFast ==
    /\ [][(pc = "entry" /\ EntryResult.kind # "Ok")
             => (pc' = "done" /\ result' = EntryResult)]_vars
    /\ [][pc # "done" /\ result = Pending]_vars
    /\ [](result.kind \notin {"Pending", "Ok"}
             => (pc = "done" /\ "val" \notin DOMAIN result))

\* an entry failed after the first had filled the Netrc, with words unread
C7_Witness ==
    /\ pc = "done"
    /\ result.kind = "IllegalFormat"
    /\ self = None
    /\ Len(netrc.machines) = 1
    /\ item.val.kind = "Str"
    /\ HasWord(buf)

----------------------------------------------------------------------------
(* C8 *)

\* C8: the end of the input met by the top-level loop is not an error: parse
\* then returns Ok with the Netrc accumulated so far; errors come from the
\* dispatch of an entry only; the empty input and an input of whitespace
\* only give Ok with an empty Netrc.
C8_CleanEnd ==
    /\ [][(pc = "loop" /\ ~HasWord(buf))
             => (pc' = "done" /\ result' = Ok(netrc) /\ netrc' = netrc)]_vars
    /\ [][result'.kind \notin {"Pending", "Ok"} => pc = "entry"]_vars
    /\ []((pc = "done" /\ ~HasWord(input)) => result = Ok(NetrcDefault))

\* `machine h login x`, then whitespace and the end of the input: Ok
C8_Witness ==
    /\ Succeeded
    /\ self = None
    /\ Len(input) > 0
    /\ input[Len(input)] = " "
    /\ result.val.machines =
          <<[MachineDefault EXCEPT !.name = Some(WordH), !.login = Some(WordX)]>>

\* an input of whitespace only: Ok, with nothing in the Netrc
C8_WitnessBlank ==
    /\ Succeeded
    /\ input = <<"\n", " ">>
    /\ result.val = NetrcDefault

----------------------------------------------------------------------------
(* C9 *)

\* the Machines of the words ws, if ws is made of `default` and
\* `machine <host>` entries only: [ok, machines]
RECURSIVE EntryMachines(_, _)
EntryMachines(ws, acc) ==
    IF ws = <<>> THEN [ok |-> TRUE, machines |-> acc]
    ELSE IF Head(ws) = KwDefault
    THEN EntryMachines(Tail(ws), Append(acc, MachineDefault))
    ELSE IF Head(ws) = KwMachine /\ Len(ws) >= 2
    THEN EntryMachines(Tail(Tail(ws)),
                       Append(acc, [MachineDefault EXCEPT !.name = Some(ws[2])]))
    ELSE [ok |-> FALSE, machines |-> acc]

\* C9: a `default` dispatched at top level appends one Machine with every
\* field absent, does not fail and reads no further word; an input made of
\* `default` and `machine <host>` entries gives one Machine per entry, in
\* file order, the defaults neither merged nor dropped.
C9_Default ==
    /\ [][(pc = "entry" /\ item.val.kind = "Default")
             => /\ pc' = "loop"
                /\ result' = Pending
                /\ buf' = buf
                /\ netrc' = [netrc EXCEPT !.machines = Append(@, MachineDefault)]]_vars
    /\ []((pc = "done" /\ EntryMachines(WordsOf(input), <<>>).ok)
             => result = Ok([machines |-> EntryMachines(WordsOf(input), <<>>).machines,
                             macdefs |-> <<>>, unknown_entries |-> <<>>]))

\* two defaults around a machine: three Machines, in file order
C9_Witness ==
    /\ Succeeded
    /\ self = None
    /\ result.val.machines =
          <<MachineDefault, [MachineDefault EXCEPT !.name = Some(WordH)], MachineDefault>>

----------------------------------------------------------------------------
(* C10 *)

\* the single-line form of m, as the claim words it
Canonical(m) ==
    (IF m.name.some
     THEN <<"m", "a", "c", "h", "i", "n", "e", " ">> \o m.name.val
     ELSE <<"d", "e", "f", "a", "u", "l", "t">>)
    \o (IF m.login.some
        THEN <<" ", "l", "o", "g", "i", "n", " ">> \o m.login.val ELSE <<>>)
    \o (IF m.password.some
        THEN <<" ", "p", "a", "s", "s", "w", "o", "r", "d", " ">> \o m.password.val
        ELSE <<>>)
    \o (IF m.account.some
        THEN <<" ", "a", "c", "c", "o", "u", "n", "t", " ">> \o m.account.val
        ELSE <<>>)

\* how many "\n" s holds
RECURSIVE Newlines(_)
Newlines(s) ==
    IF s = <<>> THEN 0 ELSE (IF Head(s) = "\n" THEN 1 ELSE 0) + Newlines(Tail(s))

\* how many "\n" the present values of m hold
FieldNewlines(m) ==
    (IF m.name.some THEN Newlines(m.name.val) ELSE 0)
    + (IF m.login.some THEN Newlines(m.login.val) ELSE 0)
    + (IF m.password.some THEN Newlines(m.password.val) ELSE 0)
    + (IF m.account.some THEN Newlines(m.account.val) ELSE 0)

\* C10 as stated: the rendering of any Machine is its single-line form, and
\* holds no newline.
C10_Original ==
    (self.some /\ pc # "display")
    => (input = Canonical(self.val) /\ Newlines(input) = 0)

\* C10, amended: the rendering of any Machine is `machine <name>`, or
\* `default` if the name is absent, then ` login <v>`, ` password <v>`,
\* ` account <v>` in this order for the fields that are present and nothing
\* for those that are absent; it holds no newline but those of the values.
C10_Display ==
    (self.some /\ pc # "display")
    => (input = Canonical(self.val) /\ Newlines(input) = FieldNewlines(self.val))

\* a Machine without name and without password has been rendered
C10_Witness ==
    /\ self.some
    /\ pc = "loop"
    /\ buf = input
    /\ ~self.val.name.some
    /\ self.val.login = Some(WordH)
    /\ ~self.val.password.some
    /\ self.val.account = Some(KwLogin)
    /\ input = <<"d", "e", "f", "a", "u", "l", "t", " ", "l", "o", "g", "i", "n", " ", "h",
                 " ", "a", "c", "c", "o", "u", "n", "t", " ", "l", "o", "g", "i", "n">>

----------------------------------------------------------------------------
(* C11 *)

\* the words next_token gives, called again and again until it gives None
RECURSIVE AllTokens(_)
AllTokens(t) ==
    LET r == next_token(t) IN
    IF r.tok.some THEN <<TokenToString(r.tok.val)>> \o AllTokens(r.t) ELSE <<>>

\* no word of ws is empty
NoEmptyWord(ws) == \A i \in 1..Len(ws) : ws[i] # <<>>

\* C11: from the start of every input text, and from every cursor the calls
\* reach, next_token called until it returns None yields exactly the maximal
\* runs of non-whitespace characters in order and never an empty word; a call
\* yields the first run of what is left, and returns None only when no
\* non-whitespace character is left.
C11_Tokenizer ==
    LET t == [buf |-> buf, pos |-> pos]
        r == next_token(t)
        ws == WordsOf(buf)
    IN /\ AllTokens(TokensNew(input)) = WordsOf(input)
       /\ AllTokens(t) = ws
       /\ NoEmptyWord(AllTokens(t))
       /\ r.tok.some <=> HasWord(buf)
       /\ r.tok.some => TokenToString(r.tok.val) = Head(ws)
       /\ pc = "done" => ~item.some /\ ~HasWord(buf)
       /\ (item.some /\ item.val.kind = "Str") => item.val.s # <<>>

\* a text whose words are separated by an ideographic space and by a space has
\* been read to its end
C11_Witness ==
    /\ pc = "done"
    /\ Len(WordsOf(input)) >= 3
    /\ \E i \in 1..Len(input) : input[i] = "U+3000"
    /\ \E i \in 1..Len(input) : input[i] = " "
    /\ buf = <<>>

\* a text that starts with whitespace, ends with whitespace, and has two words
\* separated by a tab and a newline has been read to its end
C11_WitnessLayout ==
    /\ pc = "done"
    /\ input = <<" ", "x", "\t", "\n", "x">>
    /\ buf = <<>>

----------------------------------------------------------------------------
(* C12 *)

\* the counter of the credential keyword of token kind k, in the counters c
CounterOf(c, k) ==
    CASE k = "Login" -> c.login
      [] k = "Password" -> c.password
      [] k = "Account" -> c.account

\* the entry of a credential keyword whose value word is there is about to run
CredentialEntry ==
    pc = "entry" /\ item.val.kind \in Credentials /\ HasWord(buf)

\* C12: a dispatched credential keyword whose value word is present increments
\* its counter (and no other counter), and fails with IllegalFormat exactly
\* when the incremented counter is greater than the machine counter; otherwise
\* the entry succeeds. After every entry that succeeded the login, password and
\* account counters are each at most the machine counter.
C12_CounterRule ==
    /\ []((pc = "loop" \/ Succeeded) =>
            /\ count.login <= count.machine
            /\ count.password <= count.machine
            /\ count.account <= count.machine)
    /\ [][CredentialEntry =>
            LET k == item.val.kind IN
            /\ CounterOf(count', k) = CounterOf(count, k) + 1
            /\ \A o \in Credentials \ {k} : CounterOf(count', o) = CounterOf(count, o)
            /\ count'.machine = count.machine
            /\ IF CounterOf(count, k) + 1 > count.machine
               THEN pc' = "done" /\ result'.kind = "IllegalFormat"
               ELSE pc' = "loop" /\ result' = Pending]_vars

\* a second login after one machine has been refused
C12_Witness ==
    /\ pc = "done" /\ self = None
    /\ result.kind = "IllegalFormat"
    /\ item = Some(TokenNew(KwLogin))
    /\ count.machine = 1 /\ count.login = 2

\* two logins after two machines have both been taken
C12_WitnessTaken ==
    /\ Succeeded /\ self = None
    /\ count.machine = 2 /\ count.login = 2

----------------------------------------------------------------------------
(* C13 *)

\* C13: parse never indexes machines out of range and never underflows
\* `machines.len() - 1`: no run panics, at every token dispatch (and in every
\* other state) the length of machines equals the machine counter, and an
\* entry that reaches the last machine does so with the machine counter at
\* least 1.
C13_NoOutOfRange ==
    /\ result.kind # "Panic"
    /\ Len(netrc.machines) = count.machine
    /\ pc = "entry" =>
         LET s == parse_entry(Cur, item.val, unknown_entries) IN
         /\ s.res.kind # "Panic"
         /\ Len(s.netrc.machines) = s.count.machine
         /\ (item.val.kind \in Credentials /\ s.res.kind = "Ok") =>
              /\ count.machine >= 1
              /\ Len(netrc.machines) >= 1

\* a login before any machine has been refused, with machines empty
C13_Witness ==
    /\ pc = "done" /\ self = None
    /\ result.kind = "IllegalFormat"
    /\ item = Some(TokenNew(KwLogin))
    /\ count.login = 1
    /\ netrc.machines = <<>>

\* a password has been written to the second of two machines
C13_WitnessLast ==
    /\ pc = "loop" /\ self = None
    /\ item = Some(TokenNew(KwPassword))
    /\ Len(netrc.machines) = 2
    /\ netrc.machines[2].password.some

----------------------------------------------------------------------------
(* C14 *)

\* the Machine m with the field of the credential keyword of kind k set to v
WithField(m, k, v) ==
    CASE k = "Login" -> [m EXCEPT !.login = v]
      [] k = "Password" -> [m EXCEPT !.password = v]
      [] k = "Account" -> [m EXCEPT !.account = v]

\* the first maximal run of non-whitespace characters of b, which has one
FirstWord(b) ==
    LET k == CHOOSE i \in 1..Len(b) :
                 ~is_whitespace(b[i]) /\ \A j \in 1..(i - 1) : is_whitespace(b[j])
        e == CHOOSE i \in k..Len(b) :
                 /\ \A j \in k..i : ~is_whitespace(b[j])
                 /\ i = Len(b) \/ is_whitespace(b[i + 1])
    IN SubSeq(b, k, e)

\* the sequence a is the start of the sequence b
IsPrefix(a, b) == Len(a) <= Len(b) /\ SubSeq(b, 1, Len(a)) = a

\* C14: a login/password/account entry that succeeds changes only the field
\* of its keyword in the last Machine, to the value word it read; the other
\* fields of that Machine, the earlier Machines, the length of machines,
\* macdefs and unknown_entries stay as they were. Over the whole parse
\* machines, macdefs and unknown_entries only grow at their end, and no
\* Machine but the last is ever changed.
C14_Frame ==
    /\ [][(CredentialEntry /\ pc' = "loop") =>
            LET n == Len(netrc.machines) IN
            /\ n >= 1
            /\ netrc' = [netrc EXCEPT !.machines[n] =
                             WithField(@, item.val.kind, Some(FirstWord(buf)))]]_vars
    /\ [][/\ IsPrefix(netrc.macdefs, netrc'.macdefs)
          /\ IsPrefix(netrc.unknown_entries, netrc'.unknown_entries)
          /\ Len(netrc.machines) <= Len(netrc'.machines)
          /\ \A i \in 1..Len(netrc.machines) :
                (i < Len(netrc.machines) \/ Len(netrc'.machines) > Len(netrc.machines))
                    => netrc'.machines[i] = netrc.machines[i]]_vars

\* a password has been written to the second of two machines, whose name and
\* login had been set, while the first machine has a login of its own
C14_Witness ==
    /\ pc = "loop" /\ self = None
    /\ item = Some(TokenNew(KwPassword))
    /\ Len(netrc.machines) = 2
    /\ netrc.machines[1].login.some
    /\ netrc.machines[2].name.some
    /\ netrc.machines[2].login.some
    /\ netrc.machines[2].password.some

----------------------------------------------------------------------------
(* C15 *)

\* the lines of the text that follows the macro name in b, cut at its "\n"s
LinesAfterName(b) == SplitLines(BodyOf(b), <<>>, <<>>)

\* how many lines come before the first line of ls that is empty once stripped
BeforeBlank(ls) ==
    LET B == {i \in 1..Len(ls) : Trim(ls[i]) = <<>>} IN
    IF B = {} THEN Len(ls) ELSE (CHOOSE i \in B : \A j \in B : i <= j) - 1

\* the lines up to the first line that is empty once stripped, each stripped
StrippedLines(b) ==
    LET ls == LinesAfterName(b) IN [i \in 1..BeforeBlank(ls) |-> Trim(ls[i])]

\* a macdef whose name is there is about to be read
MacDefEntry == pc = "entry" /\ item.val.kind = "MacDef" /\ HasWord(buf)

\* C15: next_commands captures the lines up to the first line that is empty
\* once stripped of whitespace (a line of spaces or tabs too) or up to the end
\* of the input; each command is the stripped text of one non-blank line, in
\* order, no command is the empty string, and at the end of input no command
\* is captured.
C15_BodyExit ==
    [][MacDefEntry =>
          /\ pc' = "loop"
          /\ netrc'.macdefs = Append(netrc.macdefs, <<NameOf(buf), StrippedLines(buf)>>)
          /\ LET cmds == netrc'.macdefs[Len(netrc'.macdefs)][2] IN
             \A i \in 1..Len(cmds) : cmds[i] # <<>>
          /\ ~HasWord(BodyOf(buf)) => netrc'.macdefs[Len(netrc'.macdefs)][2] = <<>>]_vars

\* C15, for the macro bodies whose first line that is empty once stripped is
\* empty as it stands
C15_BodyExitEmptyLine ==
    [][(MacDefEntry /\
          LET ls == LinesAfterName(buf) IN
          BeforeBlank(ls) < Len(ls) =>
              ls[BeforeBlank(ls) + 1] \in {<<>>, <<"\r">>})
          => /\ pc' = "loop"
             /\ netrc'.macdefs = Append(netrc.macdefs, <<NameOf(buf), StrippedLines(buf)>>)]_vars

\* a macro has been read whose body holds a line of whitespace only: the line
\* is among its commands, as the empty string
C15_Recorded ==
    /\ self = None
    /\ Len(netrc.macdefs) = 1
    /\ \E i \in 1..Len(netrc.macdefs[1][2]) : netrc.macdefs[1][2][i] = <<>>

----------------------------------------------------------------------------
(* C16 *)

\* how many characters of the input have been consumed
Consumed == Len(input) - Len(buf)

\* the Position after the first n characters of the input, as the claim has
\* it: 1 plus the newlines among them, 1 plus the characters after the last
PositionAfter(n) ==
    LET NL == {i \in 1..n : input[i] = "\n"}
        last == IF NL = {} THEN 0 ELSE CHOOSE i \in NL : \A j \in NL : j <= i
    IN <<1 + Cardinality(NL), 1 + (n - last)>>

\* only skip_whitespace and next_token have moved the cursor so far
WordMode == netrc.macdefs = <<>>

\* C16: in word mode the Position is (1 plus the newlines consumed, 1 plus
\* the characters consumed since the last consumed newline), so row and
\* column are at least 1; and with no macdef read, the Position of an
\* IllegalFormat error is that position right after the last character of
\* the last word consumed: the unknown word, or the value word that follows
\* the credential keyword.
C16_Position ==
    /\ WordMode =>
         /\ buf = Drop(input, Consumed)
         /\ pos = PositionAfter(Consumed)
         /\ pos[1] >= 1 /\ pos[2] >= 1
    /\ (WordMode /\ result.kind = "IllegalFormat") =>
         LET n == Consumed
             ws == WordsOf(Prefix(input, n))
         IN /\ result.pos = PositionAfter(n)
            /\ n >= 1 /\ ~is_whitespace(input[n])
            /\ n = Len(input) \/ is_whitespace(input[n + 1])
            /\ IF item.val.kind = "Str"
               THEN ws[Len(ws)] = item.val.s
               ELSE /\ item.val.kind \in Credentials
                    /\ Len(ws) >= 2
                    /\ ws[Len(ws) - 1] = TokenToString(item.val)

\* an error has been detected on a later row, after a first column
C16_Witness ==
    /\ pc = "done" /\ self = None
    /\ result.kind = "IllegalFormat"
    /\ result.pos[1] >= 3 /\ result.pos[2] >= 2
    /\ netrc.macdefs = <<>>

\* an error has been detected at the value word of a login, on the first row
C16_WitnessValue ==
    /\ pc = "done" /\ self = None
    /\ result.kind = "IllegalFormat"
    /\ item = Some(TokenNew(KwLogin))
    /\ result.pos = <<1, Len(input) + 1>>
    /\ Len(netrc.machines) = 1

----------------------------------------------------------------------------
(* C17 *)

\* the text a is an end of the text b
IsSuffix(a, b) == Len(a) <= Len(b) /\ a = Drop(b, Len(b) - Len(a))

\* C17: once called, parse eventually returns, Ok or an error: a running parse
\* always has a next step, every step moves control on, every dispatch of a
\* token moves the cursor on by at least one character, the cursor never
\* moves backwards (next_commands included), and the loop is left, with Ok,
\* exactly when no non-whitespace character is left at its head.
C17_Termination ==
    /\ Running ~> (pc = "done" /\ result.kind \in {"Ok", "EOF", "IllegalFormat"})
    /\ [](pc = "loop" =>
            LexerNextToken([buf |-> buf, pos |-> pos]).res.kind \in {"Ok", "EOF"})
    /\ [](pc = "entry" =>
            item.some /\ EntryResult.kind \in {"Ok", "EOF", "IllegalFormat"})
    /\ [][Running => pc' # pc]_vars
    /\ [][(pc = "loop" /\ pc' = "entry") => Len(buf') < Len(buf)]_vars
    /\ [][(pc = "loop" \/ pc = "entry") => IsSuffix(buf', buf)]_vars
    /\ [][pc = "loop" =>
            IF HasWord(buf) THEN pc' = "entry" ELSE pc' = "done" /\ result'.kind = "Ok"]_vars
    /\ [](pc = "done" => result.kind # "Pending")

\* parse has returned after a macro body and three more entries were read
C17_Witness ==
    /\ pc = "done" /\ self = None
    /\ result.kind = "Ok"
    /\ Len(netrc.macdefs) = 1
    /\ Len(netrc.machines) + Len(netrc.unknown_entries) >= 1
    /\ buf = <<>>

----------------------------------------------------------------------------
(* C18 *)

\* the field of the Machine m that the credential keyword of kind k writes
FieldOf(m, k) ==
    CASE k = "Login" -> m.login
      [] k = "Password" -> m.password
      [] k = "Account" -> m.account

\* C18: no credential field is overwritten: every login/password/account
\* entry that succeeds writes a field of the last Machine that was None before
\* the write, so a credential keyword repeated for the same machine entry is
\* refused with IllegalFormat.
C18_NoOverwrite ==
    [][(CredentialEntry /\ netrc.machines # <<>>) =>
          LET last == netrc.machines[Len(netrc.machines)] IN
          /\ pc' = "loop" => ~FieldOf(last, item.val.kind).some
          /\ FieldOf(last, item.val.kind).some =>
                pc' = "done" /\ result'.kind = "IllegalFormat"]_vars

\* a parse has returned Ok after the login of its last Machine was written
\* twice: the counters allowed the second write, which replaced the first
C18_Overwritten ==
    /\ Succeeded /\ self = None
    /\ input = Join(<<KwMachine, WordH, KwMachine, WordH, KwLogin, WordX, KwLogin, WordH>>,
                    <<" ">>)
    /\ netrc.machines =
          <<[MachineDefault EXCEPT !.name = Some(WordH)],
            [MachineDefault EXCEPT !.name = Some(WordH), !.login = Some(WordH)]>>

----------------------------------------------------------------------------
(* C19 *)

\* what parse returns for the text of this run under the other flag
OtherRun == parse_borrow(input, ~unknown_entries)

\* C19: the tolerance flag matters to opaque words dispatched at top level
\* only: if parse(text, false) succeeds then parse(text, true) succeeds with
\* the same machines and macdefs and with no unknown entries; if
\* parse(text, true) succeeds with no unknown entries then parse(text, false)
\* succeeds with the same machines and macdefs; and a run on the same text
\* with the same flag returns the same result again.
C19_Tolerance ==
    pc = "done" =>
        /\ result = parse_borrow(input, unknown_entries)
        /\ (~unknown_entries /\ result.kind = "Ok") =>
              /\ OtherRun.kind = "Ok"
              /\ OtherRun.val.machines = result.val.machines
              /\ OtherRun.val.macdefs = result.val.macdefs
              /\ OtherRun.val.unknown_entries = <<>>
        /\ (unknown_entries /\ result.kind = "Ok" /\ result.val.unknown_entries = <<>>) =>
              /\ OtherRun.kind = "Ok"
              /\ OtherRun.val.machines = result.val.machines
              /\ OtherRun.val.macdefs = result.val.macdefs
        /\ (~unknown_entries /\ result.kind = "IllegalFormat" /\ item.val.kind = "Str") =>
              (OtherRun.kind = "Ok" => OtherRun.val.unknown_entries # <<>>)

\* an intolerant parse has returned Ok with a machine and a macro
C19_Witness ==
    /\ Succeeded /\ self = None
    /\ ~unknown_entries
    /\ Len(netrc.machines) >= 1
    /\ Len(netrc.macdefs) >= 1

\* a tolerant parse has returned Ok with machines and no unknown entry
C19_WitnessTolerant ==
    /\ Succeeded /\ self = None
    /\ unknown_entries
    /\ Len(netrc.machines) >= 2
    /\ netrc.unknown_entries = <<>>

\* an intolerant parse has failed at an opaque word that the tolerant parse of
\* the same text collects
C19_WitnessDiffer ==
    /\ pc = "done" /\ self = None
    /\ ~unknown_entries
    /\ result.kind = "IllegalFormat"
    /\ OtherRun.kind = "Ok"
    /\ Len(OtherRun.val.unknown_entries) >= 2

----------------------------------------------------------------------------
(* C20 *)

\* the six keywords, as they are spelled
Keywords == {<<"m", "a", "c", "h", "i", "n", "e">>, <<"d", "e", "f", "a", "u", "l", "t">>,
             <<"l", "o", "g", "i", "n">>, <<"p", "a", "s", "s", "w", "o", "r", "d">>,
             <<"a", "c", "c", "o", "u", "n", "t">>, <<"m", "a", "c", "d", "e", "f">>}

\* a word, the word less its last character, the word and one character
\* more, and the word with its first character replaced
Variants(w) ==
    {w, Prefix(w, Len(w) - 1), w \o <<"x">>, <<"L">> \o Tail(w), <<"M">> \o Tail(w)}

\* the words Token::new is tried on: those of the input, and their variants
TestWords == UNION {Variants(WordsOf(input)[i]) : i \in 1..Len(WordsOf(input))}

\* the value word the entry has stored, an entry of kind k having succeeded
StoredValue(n, k) ==
    CASE k = "Machine" -> n.machines[Len(n.machines)].name
      [] k = "MacDef" -> Some(n.macdefs[Len(n.macdefs)][1])
      [] OTHER -> FieldOf(n.machines[Len(n.machines)], k)

\* C20: Token::new(s) is a keyword token iff s is exactly one of machine,
\* default, login, password, account, macdef (case matters), and the token
\* renders as s verbatim; so the word read as the value after machine, login,
\* password, account or macdef is stored as it is written also when it spells
\* a keyword, and opens no entry of that keyword.
C20_Classification ==
    /\ [](buf = input =>
            \A w \in TestWords :
                /\ TokenToString(TokenNew(w)) = w
                /\ TokenNew(w).kind # "Str" <=> w \in Keywords
                /\ TokenNew(w).kind = "Str" => TokenNew(w).s = w)
    /\ [][(pc = "entry" /\ item.val.kind \in ValueKeywords /\ HasWord(buf)
              /\ pc' = "loop") =>
            /\ StoredValue(netrc', item.val.kind) = Some(FirstWord(buf))
            /\ Len(netrc'.machines) + Len(netrc'.macdefs)
                  = Len(netrc.machines) + Len(netrc.macdefs)
                      + (IF item.val.kind \in Credentials THEN 0 ELSE 1)
            /\ \A k \in Credentials \ {item.val.kind} :
                  CounterOf(count', k) = CounterOf(count, k)]_vars

\* `machine login login machine password default account macdef` has given one
\* Machine, whose name is "login" and whose values are the keywords written
C20_Witness ==
    /\ Succeeded /\ self = None
    /\ netrc.machines = <<[name |-> Some(KwLogin), login |-> Some(KwMachine),
                           password |-> Some(KwDefault), account |-> Some(KwMacDef)]>>
    /\ netrc.macdefs = <<>>
    /\ count = [machine |-> 1, login |-> 1, password |-> 1, account |-> 1]

\* the word `Login` has been dispatched as an opaque word, not as login
C20_WitnessCase ==
    /\ pc = "entry" /\ self = None
    /\ item = Some([kind |-> "Str", s |-> WordCapLogin])
    /\ count.login = 0

=============================================================================
